---- MODULE Spec2Model ----
(***************************************************************************)
(* Kiddyverse backend: the dual-key API manager (api_manager.py), the      *)
(* session storage (session_storage.py) and the sequential OCR pipeline    *)
(* (ocr_pipeline.py).                                                      *)
(*                                                                         *)
(* Time is counted in whole minutes.  generate_content is a coroutine      *)
(* that its callers await; the upstream call it makes                      *)
(* (client.models.generate_content) is taken as the point where it is      *)
(* suspended: a request is "inflight" between the moment generate_content  *)
(* has picked its client and the moment the upstream answers, and other    *)
(* requests run meanwhile.  Everything else in a handler runs in one step. *)
(***************************************************************************)
EXTENDS Integers, Sequences, FiniteSets, TLC

\* ------------------------------------------------------------------ bounds
MaxTime == 6
MaxCalls == 2

MaxFiles == 3
\* the files of a session whose outcome is examined on its own
MaxResults == 5
\* how far the clock of the store runs past the start and past the cleanup
\* interval
MaxSlack == 1
\* the files stored while the store is examined on its own
MaxStoreFiles == 2

\* the generate_content calls of a run, numbered in the order they are made
Calls == 1..MaxCalls
\* the session ids (uuid4 strings) in play
SessionIds == {"s1"}
\* the process_session requests; request r makes its upstream calls as call r
Runs == {1}

\* --------------------------------------------------------------- constants
RetryMinutes == 5
\* SessionStorage._cleanup_interval, in minutes
CleanupMinutes == 60
ResetMinutes == 1

None == <<>>
Some(x) == <<x>>

KeyTypes == {"primary", "backup"}

\* ------------------------------------------------------ error message text
\* An exception is modelled by its message, a string.  The text of the
\* upstream messages the model draws from, character by character:
UpstreamErrors ==
  {"429", "Quota", "401", "Invalid", "timeout", "403 quota", "Rate limit"}

CharsOf(e) ==
  CASE e = "429"       -> <<"4", "2", "9">>
    [] e = "Quota"     -> <<"Q", "u", "o", "t", "a">>
    [] e = "401"       -> <<"4", "0", "1">>
    [] e = "Invalid"   -> <<"I", "n", "v", "a", "l", "i", "d">>
    [] e = "timeout"   -> <<"t", "i", "m", "e", "o", "u", "t">>
    [] e = "403 quota" -> <<"4", "0", "3", " ", "q", "u", "o", "t", "a">>
    [] e = "Rate limit" -> <<"R", "a", "t", "e", " ", "l", "i", "m", "i", "t">>

LowerChar(c) ==
  CASE c = "Q" -> "q"
    [] c = "I" -> "i"
    [] c = "R" -> "r"
    [] OTHER   -> c

Lower(s) == [i \in 1..Len(s) |-> LowerChar(s[i])]

\* term in error_str
Contains(s, term) ==
  \E i \in 0..(Len(s) - Len(term)) :
    \A j \in 1..Len(term) : s[i + j] = term[j]

RateLimitTerms ==
  { <<"r", "a", "t", "e", " ", "l", "i", "m", "i", "t">>,
    <<"q", "u", "o", "t", "a">>,
    <<"t", "o", "o", " ", "m", "a", "n", "y", " ", "r", "e", "q", "u", "e", "s", "t", "s">>,
    <<"4", "2", "9">> }

ApiKeyTerms ==
  { <<"a", "p", "i", " ", "k", "e", "y">>,
    <<"i", "n", "v", "a", "l", "i", "d">>,
    <<"u", "n", "a", "u", "t", "h", "o", "r", "i", "z", "e", "d">>,
    <<"4", "0", "1">>,
    <<"4", "0", "3">> }

is_rate_limit_error(e) ==
  LET error_str == Lower(CharsOf(e))
  IN  \E term \in RateLimitTerms : Contains(error_str, term)

is_api_key_error(e) ==
  LET error_str == Lower(CharsOf(e))
  IN  \E term \in ApiKeyTerms : Contains(error_str, term)

NoKeysError == "No API keys available"
BothRateLimitedError == "Both API keys are rate limited. Please try again later."
BothAuthFailedError == "API key authentication failed on both keys."

\* ------------------------------------------------------------------- state
VARIABLES
  api,      \* the APIManager singleton
  now,      \* datetime.now(), in minutes
  calls,    \* per generate_content call: where it stands
  storage,  \* SessionStorage._storage: session id -> files by content type
  stored,   \* per session id, the files in the order they were stored
  origin,   \* history: per session id, the operation that brought the
            \* session now in the store into being ("store_files_again"
            \* when the id had been in the store before), or how it is
            \* absent ("none": never there; "deleted")
  nfiles,   \* number of StoredFile objects built so far
  runs,     \* per process_session request: where it stands
  issued,   \* history: per slot, the upstream attempts issued in the current
            \* counter window
  lock,     \* SessionStorage._lock: "free", or the operation that holds it
  pending,  \* the store_files call that holds the lock: the files still to add
  sweep,    \* the cleanup_old_sessions call: where it stands
  returned  \* what the last storage operation returned, if it was a read

vars ==
  <<api, now, calls, storage, stored, origin, nfiles, runs, issued, lock,
    pending, sweep, returned>>
router_vars == <<api, now, calls, issued>>
store_vars ==
  <<storage, stored, origin, nfiles, lock, pending, sweep, returned>>
lock_vars == <<lock, pending, returned>>

\* APIManager.__init__ followed by _initialize_clients, for a given
\* environment (which of the two keys is set to a usable value).
initialize_clients(primary_key, backup_key) ==
  [ primary_client     |-> primary_key,
    backup_client      |-> backup_key,
    current_client     |-> IF primary_key THEN "primary"
                           ELSE IF backup_key THEN "backup" ELSE "none",
    using_backup       |-> FALSE,
    failover_count     |-> 0,
    last_failover_time |-> None,
    primary_retry_time |-> None,
    request_counts     |-> [k \in KeyTypes |-> 0],
    last_reset_time    |-> 0 ]

\* a probation that is over as soon as it has begun
should_retry_primary_at_once(a, t) ==
  IF ~a.using_backup \/ a.primary_retry_time = None
    THEN FALSE
    ELSE t >= a.primary_retry_time[1] - RetryMinutes

should_retry_primary(a, t) ==
  IF ~a.using_backup \/ a.primary_retry_time = None
    THEN FALSE
    ELSE t > a.primary_retry_time[1]

reset_rate_limits(a, t) ==
  IF t - a.last_reset_time > ResetMinutes
    THEN [a EXCEPT !.request_counts = [k \in KeyTypes |-> 0],
                   !.last_reset_time = t]
    ELSE a

\* a failover that forgets to count itself
failover_to_backup_uncounted(a, t) ==
  IF ~a.backup_client
    THEN [ret |-> FALSE, api |-> a]
    ELSE [ret |-> TRUE,
          api |-> [a EXCEPT !.using_backup = TRUE,
                            !.current_client = "backup",
                            !.last_failover_time = Some(t),
                            !.primary_retry_time = Some(t + RetryMinutes)]]

\* returns the value returned (ret) and the manager afterwards (api)
failover_to_backup(a, t) ==
  IF ~a.backup_client
    THEN [ret |-> FALSE, api |-> a]
    ELSE [ret |-> TRUE,
          api |-> [a EXCEPT !.using_backup = TRUE,
                            !.current_client = "backup",
                            !.failover_count = @ + 1,
                            !.last_failover_time = Some(t),
                            !.primary_retry_time = Some(t + RetryMinutes)]]

\* a failback that starts the failover statistics anew
failback_to_primary_resets_count(a) ==
  IF ~a.primary_client
    THEN [ret |-> FALSE, api |-> a]
    ELSE [ret |-> TRUE,
          api |-> [a EXCEPT !.using_backup = FALSE,
                            !.current_client = "primary",
                            !.primary_retry_time = None,
                            !.failover_count = 0,
                            !.last_failover_time = None]]

\* a failback that leaves the retry time as it is
failback_to_primary_keeps_retry_time(a) ==
  IF ~a.primary_client
    THEN [ret |-> FALSE, api |-> a]
    ELSE [ret |-> TRUE,
          api |-> [a EXCEPT !.using_backup = FALSE,
                            !.current_client = "primary"]]

\* a failback that leaves the using_backup flag set
failback_to_primary_keeps_flag(a) ==
  IF ~a.primary_client
    THEN [ret |-> FALSE, api |-> a]
    ELSE [ret |-> TRUE,
          api |-> [a EXCEPT !.current_client = "primary",
                            !.primary_retry_time = None]]

failback_to_primary(a) ==
  IF ~a.primary_client
    THEN [ret |-> FALSE, api |-> a]
    ELSE [ret |-> TRUE,
          api |-> [a EXCEPT !.using_backup = FALSE,
                            !.current_client = "primary",
                            !.primary_retry_time = None]]

\* the manager after get_client; the value returned is its current_client
get_client(a, t) ==
  LET a1 == reset_rate_limits(a, t)
  IN  IF should_retry_primary(a1, t) THEN failback_to_primary(a1).api ELSE a1

Finished(c) == c.pc \in {"returned", "raised"}

IdleCall ==
  [ pc |-> "idle", client |-> "none", key_type |-> "none",
    attempts |-> 0, tried |-> {}, result |-> "" ]

\* generate_content without the check for a missing client
generate_content_unchecked(a, c, t) ==
  LET a1 == get_client(a, t)
      client == a1.current_client
      key_type == IF a1.using_backup THEN "backup" ELSE "primary"
  IN  [api |-> [a1 EXCEPT !.request_counts[key_type] = @ + 1],
       call |-> [c EXCEPT !.pc = "inflight",
                          !.client = client,
                          !.key_type = key_type,
                          !.attempts = @ + 1,
                          !.tried = @ \cup {client}]]

\* generate_content writing back a request count it read before get_client
generate_content_stale_count(a, c, t) ==
  LET a1 == get_client(a, t)
      client == a1.current_client
  IN  IF client = "none"
        THEN [api |-> a1,
              call |-> [c EXCEPT !.pc = "raised", !.result = NoKeysError]]
        ELSE LET key_type == IF a1.using_backup THEN "backup" ELSE "primary"
             IN  [api |-> [a1 EXCEPT !.request_counts[key_type] =
                                        a.request_counts[key_type] + 1],
                  call |-> [c EXCEPT !.pc = "inflight",
                                     !.client = client,
                                     !.key_type = key_type,
                                     !.attempts = @ + 1,
                                     !.tried = @ \cup {client}]]

\* generate_content from its entry up to the upstream call (lines 138-158):
\* the manager and the call afterwards.
generate_content(a, c, t) ==
  LET a1 == get_client(a, t)
      client == a1.current_client
  IN  IF client = "none"
        THEN [api |-> a1,
              call |-> [c EXCEPT !.pc = "raised", !.result = NoKeysError]]
        ELSE LET key_type == IF a1.using_backup THEN "backup" ELSE "primary"
             IN  [api |-> [a1 EXCEPT !.request_counts[key_type] = @ + 1],
                  call |-> [c EXCEPT !.pc = "inflight",
                                     !.client = client,
                                     !.key_type = key_type,
                                     !.attempts = @ + 1,
                                     !.tried = @ \cup {client}]]

\* failover, then the recursive generate_content (lines 188-189, 200-201,
\* 209-210); a failover that returns False falls out of the except block.
failover_and_retry(a, c, e, t, fall_through) ==
  LET f == failover_to_backup(a, t)
  IN  IF f.ret
        THEN generate_content(f.api, c, t)
        ELSE [api |-> f.api, call |-> fall_through]

\* an except block that re-raises the upstream error when no failover is
\* possible, whatever its kind
handle_error_reraise(a, c, e, t) ==
  LET can_failover == ~a.using_backup /\ a.backup_client
      returns_none == [c EXCEPT !.pc = "returned", !.result = "None"]
      raises(msg)  == [c EXCEPT !.pc = "raised", !.result = msg]
  IN  IF can_failover
        THEN failover_and_retry(a, c, e, t, returns_none)
        ELSE [api |-> a, call |-> raises(e)]

\* an except block that fails over whenever a backup client exists, without
\* looking at using_backup
handle_error_blind_failover(a, c, e, t) ==
  LET can_failover == a.backup_client
      returns_none == [c EXCEPT !.pc = "returned", !.result = "None"]
      raises(msg)  == [c EXCEPT !.pc = "raised", !.result = msg]
  IN  IF c.attempts >= 2
        THEN [api |-> a, call |-> raises(e)]
        ELSE IF can_failover
          THEN failover_and_retry(a, c, e, t, returns_none)
          ELSE [api |-> a, call |-> raises(e)]

\* an except block that looks for an API key error first
handle_error_key_first(a, c, e, t) ==
  LET can_failover == ~a.using_backup /\ a.backup_client
      returns_none == [c EXCEPT !.pc = "returned", !.result = "None"]
      raises(msg)  == [c EXCEPT !.pc = "raised", !.result = msg]
  IN  IF is_api_key_error(e)
        THEN IF can_failover
               THEN failover_and_retry(a, c, e, t, returns_none)
               ELSE [api |-> a, call |-> raises(BothAuthFailedError)]
      ELSE IF is_rate_limit_error(e)
        THEN IF can_failover
               THEN failover_and_retry(a, c, e, t, returns_none)
               ELSE [api |-> a, call |-> raises(BothRateLimitedError)]
      ELSE IF can_failover
        THEN failover_and_retry(a, c, e, t, raises(e))
        ELSE [api |-> a, call |-> raises(e)]

\* the except block of generate_content (lines 173-213) for exception e
handle_error(a, c, e, t) ==
  LET can_failover == ~a.using_backup /\ a.backup_client
      returns_none == [c EXCEPT !.pc = "returned", !.result = "None"]
      raises(msg)  == [c EXCEPT !.pc = "raised", !.result = msg]
  IN  IF is_rate_limit_error(e)
        THEN IF can_failover
               THEN failover_and_retry(a, c, e, t, returns_none)
               ELSE [api |-> a, call |-> raises(BothRateLimitedError)]
      ELSE IF is_api_key_error(e)
        THEN IF can_failover
               THEN failover_and_retry(a, c, e, t, returns_none)
               ELSE [api |-> a, call |-> raises(BothAuthFailedError)]
      ELSE IF can_failover
        THEN failover_and_retry(a, c, e, t, raises(e))
        ELSE [api |-> a, call |-> raises(e)]

\* a success path that fails back to primary as soon as the retry time is past
handle_success_failback(a, c, text, t) ==
  [api |-> IF should_retry_primary(a, t) THEN failback_to_primary(a).api ELSE a,
   call |-> [c EXCEPT !.pc = "returned", !.result = text]]

\* the upstream call returns a response (lines 164-171): the response is
\* returned, the manager is left as it is
handle_success(a, c, text, t) ==
  [api |-> a, call |-> [c EXCEPT !.pc = "returned", !.result = text]]

\* a cancellation caught by the except block like any other upstream error
cancelled_as_error(a, c, t) == handle_error(a, c, "timeout", t)

\* The request is cancelled while generate_content waits for the upstream:
\* asyncio.CancelledError is a BaseException, so `except Exception` (line
\* 173) does not catch it and it leaves generate_content as it is.
cancelled(a, c, t) ==
  [api |-> a, call |-> [c EXCEPT !.pc = "cancelled"]]

\* ---------------------------------------------------------- session storage
\* A StoredFile; filename stands for the file's identity.
StoredFile(filename, content_type, text_content, page_number, created_at) ==
  [ filename     |-> filename,
    content_type |-> content_type,
    text_content |-> text_content,
    page_number  |-> page_number,
    created_at   |-> created_at ]

\* What an uploaded file can be: its content type, text_content, page_number.
FileKinds ==
  { <<"image", None, None>>,
    <<"pdf_text", Some("dog"), None>>,
    <<"pdf_text", None, None>>,
    <<"pdf_images", None, Some(1)>>,
    <<"text", None, None>> }

\* _storage[session_id] is a dict from content type to list of files; a dict
\* keeps its keys in insertion order, so it is a sequence of entries.
InitialStorage == [s \in {} |-> <<>>]

\* no store_files call under way
NoPending == [session_id |-> "", files |-> << >>]

\* cleanup_old_sessions not running.  before, quiet and last are history:
\* the store as the scan found it, whether no other operation has changed
\* the store since the scan, and, while nothing has changed the store since
\* the last undisturbed run ended, that run's clock value, the number of
\* sessions it deleted and the number the run just before it deleted (if
\* that one ran undisturbed at the same clock value).
IdleSweep ==
  [ pc |-> "idle", current_time |-> 0, sessions_to_delete |-> {},
    before |-> InitialStorage, quiet |-> TRUE, deleted |-> 0, last |-> None ]

InitStore ==
  /\ storage = InitialStorage
  /\ stored = [s \in SessionIds |-> <<>>]
  /\ origin = [s \in SessionIds |-> "none"]
  /\ nfiles = 0
  /\ lock = "free"
  /\ pending = NoPending
  /\ sweep = IdleSweep
  /\ returned = None

create_session(st, session_id) ==
  [s \in DOMAIN st \cup {session_id} |->
     IF s = session_id THEN <<>> ELSE st[s]]

\* a store that starts the list of a content type anew with every file
store_file_replacing(session_data, file) ==
  IF \E i \in 1..Len(session_data) :
       session_data[i].content_type = file.content_type
    THEN [i \in 1..Len(session_data) |->
            IF session_data[i].content_type = file.content_type
              THEN [session_data[i] EXCEPT !.files = <<file>>]
              ELSE session_data[i]]
    ELSE Append(session_data,
                [content_type |-> file.content_type, files |-> <<file>>])

\* lines 59-63 for one file
store_file(session_data, file) ==
  IF \E i \in 1..Len(session_data) :
       session_data[i].content_type = file.content_type
    THEN [i \in 1..Len(session_data) |->
            IF session_data[i].content_type = file.content_type
              THEN [session_data[i] EXCEPT !.files = Append(@, file)]
              ELSE session_data[i]]
    ELSE Append(session_data,
                [content_type |-> file.content_type, files |-> <<file>>])

RECURSIVE store_loop(_, _)
store_loop(session_data, files) ==
  IF files = <<>>
    THEN session_data
    ELSE store_loop(store_file(session_data, Head(files)), Tail(files))

store_files(st, session_id, files) ==
  LET st1 == IF session_id \notin DOMAIN st
               THEN create_session(st, session_id) ELSE st
  IN  [st1 EXCEPT ![session_id] = store_loop(@, files)]

\* a concatenation that puts the content type met last first
RECURSIVE all_files_last_kind_first(_)
all_files_last_kind_first(session_data) ==
  IF session_data = <<>>
    THEN <<>>
    ELSE all_files_last_kind_first(Tail(session_data))
           \o Head(session_data).files

\* lines 83-86: the lists of the content types, one after the other
RECURSIVE all_files(_)
all_files(session_data) ==
  IF session_data = <<>>
    THEN <<>>
    ELSE Head(session_data).files \o all_files(Tail(session_data))

\* get_files(session_id) with no content_type filter
get_files(st, session_id) ==
  IF session_id \notin DOMAIN st THEN <<>> ELSE all_files(st[session_id])

delete_session(st, session_id) ==
  [s \in DOMAIN st \ {session_id} |-> st[s]]

\* get_session_info(session_id)
get_session_info(st, session_id) ==
  IF session_id \notin DOMAIN st
    THEN [exists |-> FALSE]
    ELSE LET session_data == st[session_id]
             filled == {i \in 1..Len(session_data) : session_data[i].files # << >>}
             first == CHOOSE i \in filled : \A j \in filled : i <= j
         IN  [ exists        |-> TRUE,
               total_files   |-> Len(all_files(session_data)),
               content_types |-> [i \in 1..Len(session_data) |->
                                    session_data[i].content_type],
               created_at    |-> IF filled = {} THEN None
                                 ELSE Some(session_data[first].files[1].created_at) ]

\* an oldest_time that takes a session without files to be as old as the
\* store
oldest_time_of_empty_is_zero(session_data, current_time) ==
  IF all_files(session_data) = << >>
    THEN 0
    ELSE LET times == {all_files(session_data)[i].created_at :
                         i \in 1..Len(all_files(session_data))}
         IN  CHOOSE t \in times : \A u \in times : t <= u

\* the oldest_time cleanup_old_sessions finds for a session (lines 144-148)
oldest_time(session_data, current_time) ==
  LET times == {current_time}
                 \cup {all_files(session_data)[i].created_at :
                         i \in 1..Len(all_files(session_data))}
  IN  CHOOSE t \in times : \A u \in times : t <= u

\* a scan that also marks the sessions that are exactly one interval old
sessions_to_delete_at_interval(st, current_time) ==
  {s \in DOMAIN st :
     current_time - oldest_time(st[s], current_time) >= CleanupMinutes}

\* a scan that stops at the first session it marks
sessions_to_delete_first_only(st, current_time) ==
  LET marked == {s \in DOMAIN st :
                   current_time - oldest_time(st[s], current_time) > CleanupMinutes}
  IN  IF marked = {} THEN {} ELSE {CHOOSE s \in marked : TRUE}

\* the scan of cleanup_old_sessions (lines 141-152): the sessions it marks
sessions_to_delete(st, current_time) ==
  {s \in DOMAIN st :
     current_time - oldest_time(st[s], current_time) > CleanupMinutes}

\* ---------------------------------------------------------------- pipeline
\* str.strip() on the texts of the model
Strip(text) == IF text = " " THEN "" ELSE text

ResponseTexts == {"cat", " "}
\* What reading a PDF's data with PyPDF2 can do: give the text of its pages
\* (none for a PDF without pages) or raise.
PdfReads ==
  { <<"pages", "=== Page 1 ===\nowl">>,
    <<"pages", "">>,
    <<"raises", "EOF marker not found">> }

\* _extract_text_from_pdf_content: the pages' text, "" when reading raises
extract_text_from_pdf_content(read) ==
  IF read[1] = "raises" THEN "" ELSE read[2]

PdfTexts == {extract_text_from_pdf_content(read) : read \in PdfReads}

\* confidence_score is counted in hundredths
OCRResult(filename, content_type, text, confidence, page_number, error) ==
  [ filename         |-> filename,
    content_type     |-> content_type,
    extracted_text   |-> text,
    confidence_score |-> confidence,
    page_number      |-> page_number,
    error_message    |-> error ]

Min(a, b) == IF a <= b THEN a ELSE b
Max(a, b) == IF a >= b THEN a ELSE b

\* the texts of the model with a line break or more than five words
StructuredTexts == {"=== Page 1 ===\nowl"}

\* the confidence _process_with_gemini_ocr estimates (lines 148-152)
ocr_confidence(extracted_text) ==
  LET confidence == Min(95, Max(10, Len(Strip(extracted_text))))
  IN  IF extracted_text \in StructuredTexts
        THEN Min(95, confidence + 10)
        ELSE confidence

\* a pdf_text result that reads the PDF again whatever text the file carries
text_result_reread(file, pdf_text) ==
  OCRResult(file.filename, file.content_type, pdf_text, 100,
            file.page_number, None)

\* _process_single_image for a pdf_text file (lines 204-221); pdf_text is
\* what _extract_text_from_pdf_content gives for the file's data
text_result(file, pdf_text) ==
  OCRResult(file.filename, file.content_type,
            IF file.text_content # None /\ file.text_content # Some("")
              THEN file.text_content[1] ELSE pdf_text,
            100, file.page_number, None)

\* _process_single_image for an image whose OCR returned response_text
\* (lines 145-156, 223-236)
ocr_result(file, response_text) ==
  OCRResult(file.filename, file.content_type \o "_gemini_handwritten",
            response_text, ocr_confidence(response_text),
            file.page_number, None)

\* _process_single_image for an unknown content type (lines 238-248)
unsupported_result(file) ==
  OCRResult(file.filename, file.content_type, "", 0, None,
            Some("Unsupported content type: " \o file.content_type))

\* an except clause that keeps no error message
error_result_without_message(file, msg) ==
  OCRResult(file.filename, file.content_type, "", 0, file.page_number, None)

\* the except clause of _process_single_image (lines 250-262)
error_result(file, msg) ==
  OCRResult(file.filename, file.content_type, "", 0, file.page_number,
            Some(msg))

\* A text built by formatting is a sequence of pieces: the literal parts of
\* the format and the values put in (file name, page number, extracted
\* text, error message), with every line break a piece of its own.
NL == "\n"

\* a combination that leaves out the files without readable text
combined_parts_of_readable(result, i) ==
  IF Strip(result.extracted_text) # ""
    THEN << <<Strip(result.extracted_text)>> >>
    ELSE << >>

\* what _combine_ocr_results appends for the i-th result (lines 268-283),
\* as a sequence of parts
combined_parts_of(result, i) ==
  LET name == ToString(result.filename)
  IN  IF Strip(result.extracted_text) # ""
        THEN (IF i > 1
                THEN IF result.page_number # None /\ result.page_number # Some(0)
                       THEN << <<NL, NL, "=== ", name, " (Page ",
                                 ToString(result.page_number[1]), ") ===", NL>> >>
                       ELSE << <<NL, NL, "=== ", name, " ===", NL>> >>
                ELSE << >>)
             \o << <<Strip(result.extracted_text)>> >>
        ELSE IF result.error_message # None /\ result.error_message # Some("")
          THEN << <<NL, NL, "=== ", name, " ===", NL,
                    "[Could not read this file: ", result.error_message[1], "]">> >>
          ELSE << <<NL, NL, "=== ", name, " ===", NL,
                    "[No readable text found in this file]">> >>

RECURSIVE combined_parts(_, _)
combined_parts(results, i) ==
  IF i > Len(results)
    THEN << >>
    ELSE combined_parts_of(results[i], i) \o combined_parts(results, i + 1)

\* "\n".join(parts)
RECURSIVE JoinLines(_)
JoinLines(parts) ==
  IF parts = << >> THEN << >>
  ELSE IF Len(parts) = 1 THEN Head(parts)
  ELSE Head(parts) \o <<NL>> \o JoinLines(Tail(parts))

\* str.strip() on a text in pieces: the white space at both ends goes
RECURSIVE StripPieces(_)
StripPieces(text) ==
  IF text = << >> THEN << >>
  ELSE IF Head(text) = NL THEN StripPieces(Tail(text))
  ELSE IF text[Len(text)] = NL THEN StripPieces(SubSeq(text, 1, Len(text) - 1))
  ELSE text

combine_ocr_results(results) == StripPieces(JoinLines(combined_parts(results, 1)))

\* stored_order and session_found are history: the session's files, in the
\* order they were stored, and whether the store had the session id, at the
\* moment process_session fetched the files
IdleRun ==
  [ pc |-> "idle", session_id |-> "", stored_files |-> <<>>, i |-> 0,
    ocr_results |-> <<>>, result |-> <<>>, stored_order |-> <<>>,
    session_found |-> FALSE ]

\* OCRPipelineResult, message named by its message type
OCRPipelineResult(success, message, session_id, total, text, results, error) ==
  << [ success               |-> success,
       message               |-> message,
       session_id            |-> session_id,
       total_files_processed |-> total,
       combined_text         |-> text,
       individual_results    |-> results,
       error_details         |-> error ] >>

\* process_session that raises when it finds no files
no_session_raises(session_id) == None

\* the outcome when get_files returns nothing (lines 296-306)
no_session_result(session_id) ==
  OCRPipelineResult(FALSE, "no_session", session_id, 0, << >>, << >>,
                    Some("no_session"))

\* an outcome that takes a success rate of exactly 0.8 for a partial success
pipeline_result_above_threshold(session_id, ocr_results) ==
  LET successful_results ==
        {i \in 1..Len(ocr_results) :
           /\ Strip(ocr_results[i].extracted_text) # ""
           /\ ocr_results[i].error_message = None}
      n == Cardinality(successful_results)
      total == Len(ocr_results)
      message == IF 10 * n > 8 * total THEN "processing_success"
                 ELSE IF n > 0 THEN "processing_partial"
                 ELSE "processing_failed"
  IN  OCRPipelineResult(message # "processing_failed", message, session_id,
                        total, combine_ocr_results(ocr_results), ocr_results,
                        None)

\* lines 316-354: the outcome for the results of all files
pipeline_result(session_id, ocr_results) ==
  LET combined_text == combine_ocr_results(ocr_results)
      successful_results ==
        {i \in 1..Len(ocr_results) :
           /\ Strip(ocr_results[i].extracted_text) # ""
           /\ ocr_results[i].error_message \in {None, Some("")}}
      n == Cardinality(successful_results)
      total == Len(ocr_results)
      \* success_rate >= 0.8, in tenths
      message == IF 10 * n >= 8 * total THEN "processing_success"
                 ELSE IF n > 0 THEN "processing_partial"
                 ELSE "processing_failed"
  IN  OCRPipelineResult(message # "processing_failed", message, session_id,
                        total, combined_text, ocr_results, None)

\* ----------------------------------------------------------------- actions
\* The history of attempts after a step that took the manager from a to a1
\* and a call from c to c1: the window starts anew when _reset_rate_limits
\* has moved last_reset_time, and an attempt is counted for the slot
\* generate_content took it to be issued on (key_type, line 148).
issued_after(a, a1, c, c1) ==
  LET base == IF a1.last_reset_time # a.last_reset_time
                THEN [k \in KeyTypes |-> 0] ELSE issued
  IN  IF c1.attempts = c.attempts + 1
        THEN [base EXCEPT ![c1.key_type] = @ + 1]
        ELSE base

Init ==
  /\ \E primary_key \in BOOLEAN, backup_key \in BOOLEAN :
       api = initialize_clients(primary_key, backup_key)
  /\ now = 0
  /\ calls = [k \in Calls |-> IdleCall]
  /\ InitStore
  /\ runs = [r \in Runs |-> IdleRun]
  /\ issued = [k \in KeyTypes |-> 0]

\* a request calls api_manager.generate_content
Call(t) ==
  /\ calls[t].pc = "idle"
  /\ \A k \in Calls : k < t => calls[k].pc # "idle"
  /\ LET g == generate_content(api, IdleCall, now)
     IN  /\ api' = g.api
         /\ calls' = [calls EXCEPT ![t] = g.call]
         /\ issued' = issued_after(api, g.api, IdleCall, g.call)
  /\ UNCHANGED now

\* the upstream call returns a response (lines 164-171)
UpstreamOk(t, text) ==
  /\ calls[t].pc = "inflight"
  /\ LET h == handle_success(api, calls[t], text, now)
     IN  /\ api' = h.api
         /\ calls' = [calls EXCEPT ![t] = h.call]
  /\ UNCHANGED <<now, issued>>

\* the upstream call raises e (lines 173-213)
UpstreamError(t, e) ==
  /\ calls[t].pc = "inflight"
  /\ LET h == handle_error(api, calls[t], e, now)
     IN  /\ api' = h.api
         /\ calls' = [calls EXCEPT ![t] = h.call]
         /\ issued' = issued_after(api, h.api, calls[t], h.call)
  /\ UNCHANGED now

\* the request of call t is cancelled during the upstream call
Cancel(t) ==
  /\ calls[t].pc = "inflight"
  /\ LET x == cancelled(api, calls[t], now)
     IN  /\ api' = x.api
         /\ calls' = [calls EXCEPT ![t] = x.call]
         /\ issued' = issued_after(api, x.api, calls[t], x.call)
  /\ UNCHANGED now

Tick ==
  /\ now < MaxTime
  /\ now' = now + 1
  /\ UNCHANGED <<api, calls, issued>>

Next ==
  \/ \E t \in Calls : Call(t) /\ UNCHANGED <<store_vars, runs>>
  \/ \E t \in Calls : UpstreamOk(t, "cat") /\ UNCHANGED <<store_vars, runs>>
  \/ \E t \in Calls, e \in UpstreamErrors :
       UpstreamError(t, e) /\ UNCHANGED <<store_vars, runs>>
  \/ \E t \in Calls : Cancel(t) /\ UNCHANGED <<store_vars, runs>>
  \/ Tick /\ UNCHANGED <<store_vars, runs>>

Spec == Init /\ [][Next]_vars

\* ------------------------------------------------------- storage actions
\* the history of the sweep after another operation has changed the store
disturbed(sw) ==
  [sw EXCEPT !.quiet = IF sw.pc = "idle" THEN @ ELSE FALSE, !.last = None]

\* create_session; the id is a new uuid: no session has it and no sweep
\* under way has marked it
CreateSession(s) ==
  /\ lock = "free"
  /\ s \notin DOMAIN storage
  /\ s \notin sweep.sessions_to_delete
  /\ storage' = create_session(storage, s)
  /\ origin' = [origin EXCEPT ![s] = "create_session"]
  /\ sweep' = disturbed(sweep)
  /\ returned' = None
  /\ UNCHANGED <<stored, nfiles, lock, pending, runs, router_vars>>

\* the files of one store_files call, built in order from their kinds; a
\* file is named by its number among the files built so far
NewFiles(kinds) ==
  [i \in 1..Len(kinds) |->
     StoredFile(nfiles + i, kinds[i][1], kinds[i][2], kinds[i][3], now)]

\* store_files as one step (the whole of it runs under the lock)
StoreFiles(s, kinds) ==
  /\ lock = "free"
  /\ nfiles + Len(kinds) <= MaxFiles
  /\ storage' = store_files(storage, s, NewFiles(kinds))
  /\ stored' = [stored EXCEPT ![s] = @ \o NewFiles(kinds)]
  /\ origin' = IF s \notin DOMAIN storage
                 THEN [origin EXCEPT ![s] = IF @ = "deleted"
                                              THEN "store_files_again"
                                              ELSE "store_files"]
                 ELSE origin
  /\ nfiles' = nfiles + Len(kinds)
  /\ UNCHANGED <<lock_vars, sweep, runs, router_vars>>

DeleteSession(s) ==
  /\ lock = "free"
  /\ s \in DOMAIN storage
  /\ storage' = delete_session(storage, s)
  /\ stored' = [stored EXCEPT ![s] = <<>>]
  /\ origin' = [origin EXCEPT ![s] = IF s \in DOMAIN storage
                                        THEN "deleted" ELSE @]
  /\ sweep' = disturbed(sweep)
  /\ returned' = None
  /\ UNCHANGED <<nfiles, lock, pending, runs, router_vars>>

\* ------------------------------------------------------ pipeline actions
\* process_session up to its loop (lines 292-311)
ProcessSession(r, s) ==
  /\ runs[r].pc = "idle"
  /\ LET stored_files == get_files(storage, s)
     IN  runs' = [runs EXCEPT ![r] =
           IF stored_files = <<>>
             THEN [@ EXCEPT !.pc = "done", !.session_id = s,
                            !.stored_order = stored[s],
                            !.session_found = s \in DOMAIN storage,
                            !.result = no_session_result(s)]
             ELSE [@ EXCEPT !.pc = "loop", !.session_id = s,
                            !.stored_order = stored[s],
                            !.session_found = s \in DOMAIN storage,
                            !.stored_files = stored_files, !.i = 1]]
  /\ UNCHANGED <<store_vars, router_vars>>

\* one round of the loop (lines 312-314) for a file that needs no OCR
\* (lines 204-221 and 238-248)
ProcessFile(r, read) ==
  /\ runs[r].pc = "loop"
  /\ runs[r].i <= Len(runs[r].stored_files)
  /\ LET file == runs[r].stored_files[runs[r].i]
     IN  /\ file.content_type \notin {"image", "pdf_images"}
         /\ LET res == IF file.content_type = "pdf_text"
                         THEN text_result(file, extract_text_from_pdf_content(read))
                         ELSE unsupported_result(file)
            IN  runs' = [runs EXCEPT ![r].ocr_results = Append(@, res),
                                     ![r].i = @ + 1]
  /\ UNCHANGED <<store_vars, router_vars>>

\* a round that starts the OCR call and goes on to the next file without
\* waiting for it
ProcessImage_unawaited(r) ==
  /\ runs[r].pc = "loop"
  /\ runs[r].i <= Len(runs[r].stored_files)
  /\ LET file == runs[r].stored_files[runs[r].i]
         g == generate_content(api, IdleCall, now)
     IN  /\ file.content_type \in {"image", "pdf_images"}
         /\ api' = g.api
         /\ issued' = issued_after(api, g.api, IdleCall, g.call)
         /\ runs' = [runs EXCEPT ![r].i = @ + 1]
         /\ calls' = [calls EXCEPT ![r] = g.call]
  /\ UNCHANGED <<store_vars, now>>

\* one round of the loop for a file that needs OCR (lines 223-225, 118-143):
\* api_manager.generate_content is called; if it raises at once the error
\* becomes the file's result, else the request waits for the upstream.
ProcessImage(r) ==
  /\ runs[r].pc = "loop"
  /\ runs[r].i <= Len(runs[r].stored_files)
  /\ LET file == runs[r].stored_files[runs[r].i]
         g == generate_content(api, IdleCall, now)
     IN  /\ file.content_type \in {"image", "pdf_images"}
         /\ api' = g.api
         /\ issued' = issued_after(api, g.api, IdleCall, g.call)
         /\ IF g.call.pc = "raised"
              THEN /\ runs' = [runs EXCEPT
                        ![r].ocr_results = Append(@, error_result(file, g.call.result)),
                        ![r].i = @ + 1]
                   /\ UNCHANGED calls
              ELSE /\ runs' = [runs EXCEPT ![r].pc = "ocr"]
                   /\ calls' = [calls EXCEPT ![r] = g.call]
  /\ UNCHANGED <<store_vars, now>>

\* generate_content has returned or raised: the file's result is recorded
\* (lines 145-156, 227-236, 250-262)
RecordOcr(r) ==
  /\ runs[r].pc = "ocr"
  /\ Finished(calls[r])
  /\ LET file == runs[r].stored_files[runs[r].i]
         res == IF calls[r].pc = "returned"
                  THEN ocr_result(file, calls[r].result)
                  ELSE error_result(file, calls[r].result)
     IN  runs' = [runs EXCEPT ![r].pc = "loop",
                              ![r].ocr_results = Append(@, res),
                              ![r].i = @ + 1]
  /\ calls' = [calls EXCEPT ![r] = IdleCall]
  /\ UNCHANGED <<store_vars, api, now, issued>>

\* a loop that ends when it has gone through the files the store holds now
Finish_on_live_store(r) ==
  /\ runs[r].pc = "loop"
  /\ runs[r].i > Len(get_files(storage, runs[r].session_id))
  /\ runs' = [runs EXCEPT ![r].pc = "done",
                          ![r].result = pipeline_result(runs[r].session_id,
                                                        runs[r].ocr_results)]
  /\ UNCHANGED <<store_vars, router_vars>>

\* after the loop (lines 316-354)
Finish(r) ==
  /\ runs[r].pc = "loop"
  /\ runs[r].i > Len(runs[r].stored_files)
  /\ runs' = [runs EXCEPT ![r].pc = "done",
                          ![r].result = pipeline_result(runs[r].session_id,
                                                        runs[r].ocr_results)]
  /\ UNCHANGED <<store_vars, router_vars>>

\* the batches of files one store_files call can pass
Batches(n) == UNION {[1..k -> FileKinds] : k \in 0..n}

NextPipeline ==
  \/ \E s \in SessionIds : CreateSession(s)
  \/ \E s \in SessionIds, kinds \in Batches(MaxFiles - nfiles) : StoreFiles(s, kinds)
  \/ \E s \in SessionIds : DeleteSession(s)
  \/ \E r \in Runs, s \in SessionIds : ProcessSession(r, s)
  \/ \E r \in Runs, read \in PdfReads : ProcessFile(r, read)
  \/ \E r \in Runs : ProcessImage(r)
  \/ \E r \in Runs, text \in ResponseTexts :
       UpstreamOk(r, text) /\ UNCHANGED <<store_vars, runs>>
  \/ \E r \in Runs, e \in UpstreamErrors :
       UpstreamError(r, e) /\ UNCHANGED <<store_vars, runs>>
  \/ \E r \in Runs : RecordOcr(r)
  \/ \E r \in Runs : Finish(r)

\* the pipeline is run with both keys configured
InitPipeline == Init /\ api.primary_client /\ api.backup_client

SpecPipeline == InitPipeline /\ [][NextPipeline]_vars

\* ------------------------------------------- the outcome of a finished loop
\* The outcome is a function of the files' results alone.  It is examined
\* from every state in which a run has come to the end of its loop over up
\* to MaxResults files.
OcrErrors == {BothRateLimitedError}
\* the files an upload stores: images, PDFs read later, pages of scanned PDFs
OutcomeKinds == {k \in FileKinds : k[1] # "text" /\ k[2] = None}

\* the results _process_single_image can return for a file
possible_results(file) ==
  IF file.content_type = "pdf_text"
    THEN {text_result(file, pdf_text) : pdf_text \in PdfTexts}
  ELSE IF file.content_type \in {"image", "pdf_images"}
    THEN {ocr_result(file, text) : text \in ResponseTexts}
           \cup {error_result(file, msg) : msg \in OcrErrors}
  ELSE {unsupported_result(file)}

RECURSIVE possible_result_lists(_)
possible_result_lists(files) ==
  IF files = << >>
    THEN { << >> }
    ELSE { <<res>> \o rest : res \in possible_results(Head(files)),
                             rest \in possible_result_lists(Tail(files)) }

\* the files of kinds, stored in one session and fetched again
files_of(kinds) ==
  LET files == [i \in 1..Len(kinds) |->
                  StoredFile(i, kinds[i][1], kinds[i][2], kinds[i][3], 0)]
  IN  [stored |-> files, storage |-> store_files(InitialStorage, "s1", files)]

InitOutcome ==
  /\ api = initialize_clients(TRUE, TRUE)
  /\ now = 0
  /\ calls = [k \in Calls |-> IdleCall]
  /\ issued = [k \in KeyTypes |-> 0]
  /\ lock = "free"
  /\ pending = NoPending
  /\ sweep = IdleSweep
  /\ returned = None
  /\ \E n \in 1..MaxResults :
       \E kinds \in [1..n -> OutcomeKinds] :
         LET f == files_of(kinds)
             stored_files == get_files(f.storage, "s1")
         IN  /\ storage = f.storage
             /\ stored = [s \in SessionIds |-> f.stored]
             /\ origin = [s \in SessionIds |-> "store_files"]
             /\ nfiles = n
             /\ \E results \in possible_result_lists(stored_files) :
                  runs = [r \in Runs |->
                               [IdleRun EXCEPT !.pc = "loop",
                                               !.session_id = "s1",
                                               !.session_found = TRUE,
                                               !.stored_order = f.stored,
                                               !.stored_files = stored_files,
                                               !.ocr_results = results,
                                               !.i = n + 1]]

NextOutcome == \E r \in Runs : Finish(r)

SpecOutcome == InitOutcome /\ [][NextOutcome]_vars


\* ------------------------------------------------- the store on its own
\* The operations of the session store, called from concurrent requests.
\* Each operation takes the lock for the part of it that touches _storage;
\* cleanup_old_sessions takes it once for its scan and once more for every
\* session it deletes.  The clock moves by a minute or by the whole
\* cleanup interval.
StoreSessionIds == {"s1", "s2"}
StoreKinds == {k \in FileKinds : k[1] = "image" \/ k[2] # None}
StoreTimes ==
  (0..MaxSlack) \cup (CleanupMinutes..(CleanupMinutes + MaxSlack))

\* a store_files that takes the lock and does not create a missing session
StoreBegin_without_create(s, kinds) ==
  /\ lock = "free"
  /\ nfiles + Len(kinds) <= MaxStoreFiles
  /\ lock' = "store_files"
  /\ pending' = [session_id |-> s, files |-> NewFiles(kinds)]
  /\ stored' = [stored EXCEPT ![s] = @ \o NewFiles(kinds)]
  /\ nfiles' = nfiles + Len(kinds)
  /\ sweep' = disturbed(sweep)
  /\ returned' = None
  /\ UNCHANGED <<storage, origin, runs, router_vars>>

\* store_files takes the lock (lines 53-55)
StoreBegin(s, kinds) ==
  /\ lock = "free"
  /\ nfiles + Len(kinds) <= MaxStoreFiles
  /\ lock' = "store_files"
  /\ storage' = IF s \notin DOMAIN storage
                  THEN create_session(storage, s) ELSE storage
  /\ pending' = [session_id |-> s, files |-> NewFiles(kinds)]
  /\ stored' = [stored EXCEPT ![s] = @ \o NewFiles(kinds)]
  /\ origin' = IF s \notin DOMAIN storage
                 THEN [origin EXCEPT ![s] = IF @ = "deleted"
                                              THEN "store_files_again"
                                              ELSE "store_files"]
                 ELSE origin
  /\ nfiles' = nfiles + Len(kinds)
  /\ sweep' = disturbed(sweep)
  /\ returned' = None
  /\ UNCHANGED <<runs, router_vars>>

\* one round of the loop of store_files (lines 58-63)
StoreStep ==
  /\ lock = "store_files"
  /\ pending.files # << >>
  /\ storage' = [storage EXCEPT ![pending.session_id] =
                                  store_file(@, Head(pending.files))]
  /\ pending' = [pending EXCEPT !.files = Tail(@)]
  /\ UNCHANGED <<stored, origin, nfiles, lock, sweep, returned, runs, router_vars>>

\* store_files leaves the lock (lines 64-66)
StoreEnd ==
  /\ lock = "store_files"
  /\ pending.files = << >>
  /\ lock' = "free"
  /\ pending' = NoPending
  /\ UNCHANGED <<storage, stored, origin, nfiles, sweep, returned, runs, router_vars>>

\* a get_files that does not take the lock
GetFiles_unlocked(s) ==
  /\ returned' = Some([op |-> "get_files", session_id |-> s,
                       files |-> get_files(storage, s), whole |-> stored[s]])
  /\ UNCHANGED <<storage, stored, origin, nfiles, lock, pending, sweep, runs, router_vars>>

\* get_files(session_id); whole is history: all the files stored in the
\* session since it last came into being
GetFiles(s) ==
  /\ lock = "free"
  /\ returned' = Some([op |-> "get_files", session_id |-> s,
                       files |-> get_files(storage, s), whole |-> stored[s]])
  /\ UNCHANGED <<storage, stored, origin, nfiles, lock, pending, sweep, runs, router_vars>>

GetSessionInfo(s) ==
  /\ lock = "free"
  /\ returned' = Some([op |-> "get_session_info", session_id |-> s,
                       info |-> get_session_info(storage, s), whole |-> stored[s]])
  /\ UNCHANGED <<storage, stored, origin, nfiles, lock, pending, sweep, runs, router_vars>>

\* cleanup_old_sessions: the scan (lines 138-152)
SweepScan ==
  /\ lock = "free"
  /\ sweep.pc = "idle"
  /\ sweep' = [sweep EXCEPT !.pc = "deleting",
                            !.current_time = now,
                            !.sessions_to_delete = sessions_to_delete(storage, now),
                            !.before = storage,
                            !.quiet = TRUE,
                            !.deleted = 0]
  /\ returned' = None
  /\ UNCHANGED <<storage, stored, origin, nfiles, lock, pending, runs, router_vars>>

\* cleanup_old_sessions: delete_session for a marked session (lines 155-156)
SweepDelete(s) ==
  /\ lock = "free"
  /\ sweep.pc = "deleting"
  /\ s \in sweep.sessions_to_delete
  /\ storage' = delete_session(storage, s)
  /\ stored' = [stored EXCEPT ![s] = << >>]
  /\ origin' = [origin EXCEPT ![s] = IF s \in DOMAIN storage
                                        THEN "deleted" ELSE @]
  /\ sweep' = [sweep EXCEPT !.sessions_to_delete = @ \ {s},
                            !.deleted = IF s \in DOMAIN storage THEN @ + 1 ELSE @]
  /\ returned' = None
  /\ UNCHANGED <<nfiles, lock, pending, runs, router_vars>>

\* cleanup_old_sessions returns (lines 158-159)
SweepEnd ==
  /\ sweep.pc = "deleting"
  /\ sweep.sessions_to_delete = {}
  /\ sweep' = [sweep EXCEPT
         !.pc = "idle",
         !.before = InitialStorage,
         !.last = IF sweep.quiet
                    THEN Some([time |-> sweep.current_time,
                               deleted |-> sweep.deleted,
                               prior |-> IF sweep.last # None
                                            /\ sweep.last[1].time = sweep.current_time
                                           THEN Some(sweep.last[1].deleted)
                                           ELSE None])
                    ELSE None,
         !.current_time = 0,
         !.deleted = 0,
         !.quiet = TRUE]
  /\ UNCHANGED <<storage, stored, origin, nfiles, lock_vars, runs, router_vars>>

\* time passes
TickStore(d) ==
  /\ now + d \in StoreTimes
  /\ now' = now + d
  /\ UNCHANGED <<api, calls, issued, store_vars, runs>>

\* the batches of files one store_files call of the store's clients passes
StoreBatches(n) == UNION {[1..k -> StoreKinds] : k \in 0..n}

NextStore ==
  \/ \E s \in StoreSessionIds : CreateSession(s)
  \/ \E s \in StoreSessionIds, kinds \in StoreBatches(MaxStoreFiles - nfiles) :
       StoreBegin(s, kinds)
  \/ StoreStep
  \/ StoreEnd
  \/ \E s \in StoreSessionIds : GetFiles(s)
  \/ \E s \in StoreSessionIds : GetSessionInfo(s)
  \/ \E s \in StoreSessionIds : DeleteSession(s)
  \/ SweepScan
  \/ \E s \in StoreSessionIds : SweepDelete(s)
  \/ SweepEnd
  \/ \E d \in {1, CleanupMinutes} : TickStore(d)

InitStoreSpec ==
  /\ api = initialize_clients(TRUE, TRUE)
  /\ now = 0
  /\ calls = [k \in Calls |-> IdleCall]
  /\ issued = [k \in KeyTypes |-> 0]
  /\ runs = [r \in Runs |-> IdleRun]
  /\ storage = InitialStorage
  /\ stored = [s \in StoreSessionIds |-> << >>]
  /\ origin = [s \in StoreSessionIds |-> "none"]
  /\ nfiles = 0
  /\ lock = "free"
  /\ pending = NoPending
  /\ sweep = IdleSweep
  /\ returned = None

SpecStore == InitStoreSpec /\ [][NextStore]_vars

\* ---------------------------------------------- vocabulary of the claims
\* The slot the router takes itself to be on: the key name generate_content
\* derives from using_backup (line 148).
activeSlot(a) == IF a.using_backup THEN "BACKUP" ELSE "PRIMARY"

BothConfigured == api.primary_client /\ api.backup_client
BackupOnly == ~api.primary_client /\ api.backup_client
NoneConfigured == ~api.primary_client /\ ~api.backup_client

\* The error taxonomy as the specification words it: RATE_LIMIT is a text
\* with quota / too many requests / 429, AUTH one with api key /
\* unauthorized / 401 / 403, anything else is OTHER.
QuotaMarkers ==
  { <<"q", "u", "o", "t", "a">>,
    <<"t", "o", "o", " ", "m", "a", "n", "y", " ", "r", "e", "q", "u", "e", "s", "t", "s">>,
    <<"4", "2", "9">> }

AuthMarkers ==
  { <<"a", "p", "i", " ", "k", "e", "y">>,
    <<"u", "n", "a", "u", "t", "h", "o", "r", "i", "z", "e", "d">>,
    <<"4", "0", "1">>,
    <<"4", "0", "3">> }

ErrorKind(e) ==
  LET text == Lower(CharsOf(e))
  IN  IF \E m \in QuotaMarkers : Contains(text, m) THEN "RATE_LIMIT"
      ELSE IF \E m \in AuthMarkers : Contains(text, m) THEN "AUTH"
      ELSE "OTHER"

\* ------------------------------------------------------------------ claims

\* C1: process returns exactly one ItemResult per item stored in the
\* session, and the i-th ItemResult belongs to the i-th item in the order
\* the items were stored.
C1_ResultsInStoredOrder ==
  \A r \in Runs :
    runs[r].pc = "done" =>
      LET results == runs[r].result[1].individual_results
          items == runs[r].stored_order
      IN  /\ Len(results) = Len(items)
          /\ \A i \in 1..Len(results) : results[i].filename = items[i].filename

C3_FailoverAndRetry ==
  [][\A k \in Calls :
       /\ \A e \in UpstreamErrors :
            ( /\ UpstreamError(k, e)
              /\ activeSlot(api) = "PRIMARY"
              /\ api.backup_client
              /\ calls[k].client = "primary" )
            => ( /\ activeSlot(api') = "BACKUP"
                 /\ api'.failover_count = api.failover_count + 1
                 /\ api'.last_failover_time = Some(now)
                 /\ api'.primary_retry_time = Some(now + RetryMinutes)
                 /\ calls'[k].pc = "inflight"
                 /\ calls'[k].client = "backup"
                 /\ calls'[k].attempts = calls[k].attempts + 1 )
       /\ (UpstreamOk(k, "cat") /\ calls[k].attempts > 1)
            => (calls'[k].pc = "returned" /\ calls'[k].result = "cat")
    ]_vars

C3_Witness ==
  \E k \in Calls :
    /\ calls[k].pc = "returned"
    /\ calls[k].result = "cat"
    /\ calls[k].tried = {"primary", "backup"}
    /\ calls[k].attempts = 2
    /\ api.failover_count = 1

\* C4: a generate call made while activeSlot is BACKUP and now >
\* primaryRetryAt switches to PRIMARY, clears primaryRetryAt and issues its
\* first attempt against PRIMARY; made while now <= primaryRetryAt it does
\* not fail back and its attempt goes to BACKUP.
C4_FailbackBeforeAttempt ==
  [][\A k \in Calls :
       (Call(k) /\ activeSlot(api) = "BACKUP" /\ api.primary_retry_time # None)
       => IF now > api.primary_retry_time[1]
            THEN /\ activeSlot(api') = "PRIMARY"
                 /\ api'.primary_retry_time = None
                 /\ calls'[k].client = "primary"
            ELSE /\ activeSlot(api') = "BACKUP"
                 /\ api'.primary_retry_time = api.primary_retry_time
                 /\ calls'[k].client = "backup"
    ]_vars

C7_OtherErrorUnmasked ==
  [][\A k \in Calls, e \in UpstreamErrors :
       ( /\ UpstreamError(k, e)
         /\ ErrorKind(e) = "OTHER"
         /\ activeSlot(api) = "BACKUP" )
       => ( /\ calls'[k].pc = "raised"
            /\ calls'[k].result = e
            /\ calls'[k].attempts = calls[k].attempts
            /\ api' = api )
    ]_vars

\* C8: with no credential configured every generate call fails with
\* NO_CREDENTIALS, no upstream attempt is made, and activeSlot,
\* failoverCount and primaryRetryAt keep their initial values.
C8_NoCredentials ==
  NoneConfigured =>
    /\ \A k \in Calls :
         /\ calls[k].pc \in {"idle", "raised"}
         /\ calls[k].attempts = 0
         /\ calls[k].pc = "raised" => calls[k].result = NoKeysError
    /\ activeSlot(api) = "PRIMARY"
    /\ api.current_client = "none"
    /\ api.failover_count = 0
    /\ api.primary_retry_time = None

C8_Witness ==
  /\ NoneConfigured
  /\ \A k \in Calls : calls[k].pc = "raised" /\ calls[k].result = NoKeysError
  /\ now > ResetMinutes

\* C9: in every reachable state of every configuration, activeSlot = BACKUP
\* implies that primaryRetryAt is set.
C9_BackupImpliesRetryTime ==
  activeSlot(api) = "BACKUP" => api.primary_retry_time # None

C9_Witness ==
  /\ BackupOnly
  /\ activeSlot(api) = "BACKUP"
  /\ now > api.primary_retry_time[1]
  /\ \E k \in Calls : calls[k].pc = "inflight"

\* C10: with only the backup credential configured, a generate call whose
\* upstream attempt fails has made exactly one attempt, and failoverCount
\* stays 0.
C10_BackupOnlySingleAttempt ==
  BackupOnly =>
    /\ api.failover_count = 0
    /\ \A k \in Calls : calls[k].pc = "raised" => calls[k].attempts = 1

\* C11: every upstream attempt adds exactly 1 to the request counter of the
\* credential the attempt is issued against and leaves the other counter
\* alone (counters as they stand after the per-minute reset, when one is
\* due), in every credential configuration.
C11_CounterOfIssuedCredential ==
  [][\A k \in Calls :
       calls'[k].attempts = calls[k].attempts + 1 =>
         LET base == reset_rate_limits(api, now).request_counts
         IN  api'.request_counts = [base EXCEPT ![calls'[k].client] = @ + 1]
    ]_vars

\* C12: under every interleaving of generate calls no request counter is
\* negative, and each counter equals the number of upstream attempts issued
\* on its slot since the counter window began.
C12_CountersMatchAttempts ==
  \A k \in KeyTypes :
    /\ api.request_counts[k] >= 0
    /\ api.request_counts[k] = issued[k]

C12_Witness ==
  /\ api.last_reset_time > 0
  /\ api.request_counts["primary"] >= 1
  /\ api.request_counts["backup"] >= 2
  /\ \A k \in Calls : calls[k].pc = "inflight"

\* C13: when a generate call sees its attempt on PRIMARY fail while
\* activeSlot is already BACKUP (another call has failed over meanwhile),
\* its failover decision changes neither failoverCount, lastFailoverAt nor
\* primaryRetryAt; failoverCount grows by exactly 1 in a step that takes
\* activeSlot from PRIMARY to BACKUP and in no other step.
C13_SecondFailoverNoOp ==
  [][ /\ \A k \in Calls, e \in UpstreamErrors :
           ( /\ UpstreamError(k, e)
             /\ calls[k].client = "primary"
             /\ activeSlot(api) = "BACKUP" )
           => ( /\ activeSlot(api') = "BACKUP"
                /\ api'.failover_count = api.failover_count
                /\ api'.last_failover_time = api.last_failover_time
                /\ api'.primary_retry_time = api.primary_retry_time )
      /\ api'.failover_count =
           api.failover_count
             + (IF activeSlot(api) = "PRIMARY" /\ activeSlot(api') = "BACKUP"
                  THEN 1 ELSE 0)
    ]_vars

C13_Witness ==
  /\ BothConfigured
  /\ activeSlot(api) = "BACKUP"
  /\ api.failover_count = 1
  /\ \E k, j \in Calls :
       /\ calls[k].tried = {"primary", "backup"}
       /\ calls[j].tried = {"primary"}
       /\ calls[j].pc = "raised"

\* C14: a generate call cancelled while its upstream attempt is in flight
\* causes no failover: activeSlot, failoverCount, lastFailoverAt and
\* primaryRetryAt are as before, and the call makes no further attempt.
C14_CancelIsNoFailure ==
  [][\A k \in Calls :
       Cancel(k) =>
         /\ activeSlot(api') = activeSlot(api)
         /\ api'.current_client = api.current_client
         /\ api'.failover_count = api.failover_count
         /\ api'.last_failover_time = api.last_failover_time
         /\ api'.primary_retry_time = api.primary_retry_time
         /\ calls'[k].pc = "cancelled"
         /\ calls'[k].attempts = calls[k].attempts
    ]_vars

C14_Witness ==
  /\ BothConfigured
  /\ activeSlot(api) = "PRIMARY"
  /\ api.failover_count = 0
  /\ \E k \in Calls : calls[k].pc = "cancelled" /\ calls[k].client = "primary"

\* C15: when the router ends an item's OCR call with an error, the item gets
\* an ItemResult with confidence 0, empty text and the error's message, the
\* run goes on with the next item, and a run that ends returns an outcome
\* with one ItemResult per item.
C15_ItemErrorContained ==
  [][\A r \in Runs :
       /\ (RecordOcr(r) /\ calls[r].pc = "raised") =>
            LET file == runs[r].stored_files[runs[r].i]
                results == runs'[r].ocr_results
                res == results[Len(results)]
            IN  /\ Len(results) = runs[r].i
                /\ res.filename = file.filename
                /\ res.confidence_score = 0
                /\ res.extracted_text = ""
                /\ res.error_message = Some(calls[r].result)
                /\ runs'[r].pc = "loop"
                /\ runs'[r].i = runs[r].i + 1
       /\ (runs[r].pc \in {"loop", "ocr"} /\ runs'[r].pc = "done") =>
            /\ runs'[r].result # None
            /\ Len(runs'[r].result[1].individual_results)
                 = Len(runs[r].stored_files)
    ]_vars

C15_Witness ==
  \E r \in Runs :
    /\ runs[r].pc = "done"
    /\ runs[r].result # None
    /\ LET results == runs[r].result[1].individual_results
       IN  /\ Len(results) >= 2
           /\ results[1].error_message = Some(BothRateLimitedError)
           /\ results[2].extracted_text = "cat"

\* C16: process on a session id the store does not have returns
\* success=false, totalFilesProcessed=0 and an empty combined text, leaves
\* the router untouched, and the run makes no step (so no upstream call)
\* afterwards.
C16_UnknownSession ==
  [][\A r \in Runs :
       /\ \A s \in SessionIds :
            (ProcessSession(r, s) /\ s \notin DOMAIN storage) =>
              /\ runs'[r].pc = "done"
              /\ runs'[r].result # None
              /\ runs'[r].result[1].success = FALSE
              /\ runs'[r].result[1].total_files_processed = 0
              /\ runs'[r].result[1].combined_text = << >>
              /\ UNCHANGED <<api, calls, issued>>
       /\ runs[r].pc = "done" => (runs'[r] = runs[r] /\ calls'[r] = calls[r])
    ]_vars

C16_Witness ==
  \E r \in Runs :
    /\ runs[r].pc = "done"
    /\ ~runs[r].session_found
    /\ runs[r].session_id \notin DOMAIN storage
    /\ runs[r].result # None
    /\ runs[r].result[1].success = FALSE
    /\ nfiles > 0
    /\ calls[r].pc = "idle"

\* the items of a run's outcome that count as successful: text that is not
\* empty (white space aside) and no error
SuccessfulCount(results) ==
  Cardinality({i \in 1..Len(results) :
                 /\ Strip(results[i].extracted_text) # ""
                 /\ results[i].error_message = None})

Classification(outcome) ==
  CASE outcome.message = "processing_success" -> "FULL_SUCCESS"
    [] outcome.message = "processing_partial" -> "PARTIAL_SUCCESS"
    [] OTHER -> "FAILURE"

\* C17: for a session of n >= 1 items of which k are successful, k/n >= 0.8
\* gives FULL_SUCCESS with success=true, 0 < k/n < 0.8 gives
\* PARTIAL_SUCCESS with success=true and k = 0 gives FAILURE with
\* success=false; success is true iff some item is successful.
C17_ClassificationByRatio ==
  \A r \in Runs :
    (runs[r].pc = "done" /\ Len(runs[r].ocr_results) >= 1) =>
      LET outcome == runs[r].result[1]
          n == Len(runs[r].ocr_results)
          k == SuccessfulCount(runs[r].ocr_results)
      IN  /\ 5 * k >= 4 * n =>
               (Classification(outcome) = "FULL_SUCCESS" /\ outcome.success)
          /\ (0 < k /\ 5 * k < 4 * n) =>
               (Classification(outcome) = "PARTIAL_SUCCESS" /\ outcome.success)
          /\ k = 0 => (Classification(outcome) = "FAILURE" /\ ~outcome.success)
          /\ outcome.success <=> k >= 1

C17_Witness ==
  \E r \in Runs :
    /\ runs[r].pc = "done"
    /\ Len(runs[r].ocr_results) = 5
    /\ SuccessfulCount(runs[r].ocr_results) = 4
    /\ Classification(runs[r].result[1]) = "FULL_SUCCESS"

\* Where, from position start on, the combined text first shows what the
\* item of this result contributes: its text, or a placeholder under its
\* file name (with the error reason when the result has one); 0 if nowhere.
ContributionAt(text, p, result) ==
  IF Strip(result.extracted_text) # ""
    THEN text[p] = Strip(result.extracted_text)
    ELSE /\ p + 3 <= Len(text)
         /\ text[p] = ToString(result.filename)
         /\ IF result.error_message # None
              THEN /\ p + 4 <= Len(text)
                   /\ text[p + 3] = "[Could not read this file: "
                   /\ text[p + 4] = result.error_message[1]
              ELSE text[p + 3] = "[No readable text found in this file]"

FirstContribution(text, start, result) ==
  LET ps == {p \in start..Len(text) : ContributionAt(text, p, result)}
  IN  IF ps = {} THEN 0 ELSE CHOOSE p \in ps : \A q \in ps : p <= q

RECURSIVE AccountsFor(_, _, _, _)
AccountsFor(text, start, results, i) ==
  IF i > Len(results)
    THEN TRUE
    ELSE LET p == FirstContribution(text, start, results[i])
         IN  p # 0 /\ AccountsFor(text, p + 1, results, i + 1)

\* C18 (order: that of the ItemResults handed to the combination):
\* the combined text accounts for every item in order: an item with
\* text contributes its text, an item with empty or errored text a
\* placeholder (with the error reason when there is one).
C18_CombinedTextAccountsForAll ==
  \A r \in Runs :
    (runs[r].pc = "done" /\ Len(runs[r].ocr_results) >= 1) =>
      AccountsFor(runs[r].result[1].combined_text, 1,
                  runs[r].result[1].individual_results, 1)

\* items [A(text="cat"), B(text="")]
C18_Witness ==
  \E r \in Runs :
    /\ runs[r].pc = "done"
    /\ Len(runs[r].ocr_results) = 2
    /\ runs[r].ocr_results[1].extracted_text = "cat"
    /\ runs[r].ocr_results[2].extracted_text = ""
    /\ runs[r].ocr_results[2].error_message = None
    /\ runs[r].result[1].combined_text =
         <<"cat", NL, NL, NL, "=== ", "2", " ===", NL,
           "[No readable text found in this file]">>
    /\ Classification(runs[r].result[1]) = "PARTIAL_SUCCESS"

\* C19: when every item of a non-empty session fails, the outcome has
\* success=false and an empty combined text.
C19_AllFailedEmptyText ==
  \A r \in Runs :
    ( /\ runs[r].pc = "done"
      /\ Len(runs[r].ocr_results) >= 1
      /\ SuccessfulCount(runs[r].ocr_results) = 0 )
    => ( /\ ~runs[r].result[1].success
         /\ runs[r].result[1].combined_text = << >> )

\* C20: within one run the items are processed one at a time: an item,
\* and the upstream call for it, is started only when the results of all
\* items before it are recorded and no upstream call of the run is under
\* way; an upstream call in flight is the call of the one item the run is
\* waiting for.
C20_OneItemAtATime ==
  [][\A r \in Runs :
       /\ (ProcessImage(r) \/ \E read \in PdfReads : ProcessFile(r, read)) =>
            /\ Len(runs[r].ocr_results) = runs[r].i - 1
            /\ calls[r].pc = "idle"
       /\ calls'[r].pc = "inflight" =>
            /\ runs'[r].pc = "ocr"
            /\ Len(runs'[r].ocr_results) = runs'[r].i - 1
    ]_vars

C20_Witness ==
  \E r \in Runs :
    /\ runs[r].pc = "ocr"
    /\ runs[r].i = 3
    /\ Len(runs[r].ocr_results) = 2
    /\ calls[r].pc = "inflight"
    /\ calls[r].attempts = 2

\* C21: a round of the loop issues an upstream generate call iff the item's
\* content type is image or pdf_images; a pdf_text item that carries its
\* text yields that text with confidence 1.0, an item of any other type a
\* confidence-0 result with an unsupported-content-type error, both with no
\* upstream call.
C21_UpstreamOnlyForImages ==
  [][\A r \in Runs :
       ( /\ runs[r].pc = "loop"
         /\ runs[r].i <= Len(runs[r].stored_files)
         /\ runs'[r] # runs[r] ) =>
         LET file == runs[r].stored_files[runs[r].i]
             results == runs'[r].ocr_results
             res == results[Len(results)]
         IN  IF file.content_type \in {"image", "pdf_images"}
               THEN /\ calls'[r].pc = "inflight"
                    /\ calls'[r].attempts = 1
                    /\ issued' # issued
               ELSE /\ UNCHANGED <<api, calls, issued>>
                    /\ Len(results) = runs[r].i
                    /\ res.filename = file.filename
                    /\ (file.content_type = "pdf_text" /\ file.text_content # None) =>
                         /\ res.extracted_text = file.text_content[1]
                         /\ res.confidence_score = 100
                         /\ res.error_message = None
                    /\ file.content_type # "pdf_text" =>
                         /\ res.extracted_text = ""
                         /\ res.confidence_score = 0
                         /\ res.error_message =
                              Some("Unsupported content type: " \o file.content_type)
    ]_vars

C21_Witness ==
  \E r \in Runs :
    /\ runs[r].pc = "done"
    /\ api.request_counts["primary"] = 1
    /\ \E i, j, k \in 1..Len(runs[r].ocr_results) :
         /\ runs[r].ocr_results[i].extracted_text = "dog"
         /\ runs[r].ocr_results[j].error_message = Some("Unsupported content type: text")
         /\ runs[r].ocr_results[k].content_type = "image_gemini_handwritten"

C23_FullSuccessNoErrors ==
  \A r \in Runs :
    (runs[r].pc = "done" /\ runs[r].result # None
       /\ Classification(runs[r].result[1]) = "FULL_SUCCESS") =>
      /\ runs[r].result[1].success
      /\ \A i \in 1..Len(runs[r].result[1].individual_results) :
           runs[r].result[1].individual_results[i].error_message = None

\* C28: an upstream error is handled as RATE_LIMIT iff its message has a
\* quota / too-many-requests / 429 marker, as AUTH iff it is not RATE_LIMIT
\* and has an api-key / unauthorized / 401 / 403 marker, and as OTHER in
\* every remaining case.  How an error is handled shows when no failover
\* is possible: the call ends with the rate-limit error, the
\* authentication error, or the upstream error itself.
C28_Classification ==
  [][\A k \in Calls, e \in UpstreamErrors :
       (UpstreamError(k, e) /\ ~(activeSlot(api) = "PRIMARY" /\ api.backup_client))
       => ( /\ calls'[k].pc = "raised"
            /\ calls'[k].result = BothRateLimitedError <=> ErrorKind(e) = "RATE_LIMIT"
            /\ calls'[k].result = BothAuthFailedError <=> ErrorKind(e) = "AUTH"
            /\ calls'[k].result = e <=> ErrorKind(e) = "OTHER" )
    ]_vars

\* C29: a generate call that succeeds while activeSlot is BACKUP leaves
\* activeSlot on BACKUP and primaryRetryAt (and the rest of the router)
\* as they are, also when the retry time has passed while the call was in
\* flight.
C29_SuccessKeepsBackup ==
  [][\A k \in Calls :
       (UpstreamOk(k, "cat") /\ activeSlot(api) = "BACKUP") =>
         /\ activeSlot(api') = "BACKUP"
         /\ api'.primary_retry_time = api.primary_retry_time
         /\ api' = api
         /\ calls'[k].pc = "returned"
    ]_vars

C29_Witness ==
  /\ BothConfigured
  /\ activeSlot(api) = "BACKUP"
  /\ now > api.primary_retry_time[1]
  /\ \E k \in Calls :
       /\ calls[k].pc = "returned"
       /\ calls[k].client = "backup"
       /\ calls[k].result = "cat"

\* the files of a session, and the age of the oldest of them, in the
\* vocabulary of the claims
ItemsOf(session_data) ==
  {all_files(session_data)[i] : i \in 1..Len(all_files(session_data))}

OlderThanInterval(session_data, t) ==
  \E f \in ItemsOf(session_data) : t - f.created_at > CleanupMinutes

\* C24: when a sweep has run with no other operation in between, every
\* session that had an item older than the cleanup interval when the sweep
\* began is absent, and every other session is present with exactly the
\* items it had.
C24_SweepCorrect ==
  [][(SweepEnd /\ sweep.quiet) =>
       \A s \in DOMAIN sweep.before :
         IF OlderThanInterval(sweep.before[s], sweep.current_time)
           THEN s \notin DOMAIN storage'
           ELSE s \in DOMAIN storage' /\ storage'[s] = sweep.before[s]
    ]_vars

C24_Witness ==
  /\ sweep.pc = "idle"
  /\ sweep.last # None
  /\ sweep.last[1].deleted = 1
  /\ now = sweep.last[1].time
  /\ \E s \in DOMAIN storage :
       \E f \in ItemsOf(storage[s]) : now - f.created_at = CleanupMinutes

\* C25: under every interleaving of the store's operations a read returns,
\* of the items stored in the session since it came into being, either all
\* or none: get_files never returns a strict subset of them, and
\* get_session_info either finds no session or counts them all.
C25_ReadsSeeAllOrNothing ==
  returned # None =>
    LET ret == returned[1]
    IN  IF ret.op = "get_files"
          THEN \/ ret.files = << >>
               \/ /\ Len(ret.files) = Len(ret.whole)
                  /\ \A i \in 1..Len(ret.whole) :
                       \E j \in 1..Len(ret.files) : ret.files[j] = ret.whole[i]
          ELSE ret.info.exists => ret.info.total_files = Len(ret.whole)

C25_Witness ==
  /\ returned # None
  /\ returned[1].op = "get_files"
  /\ Len(returned[1].files) = 2
  /\ sweep.pc = "deleting"
  /\ returned[1].session_id \in sweep.sessions_to_delete

\* C26: a sweep run directly after an undisturbed sweep, at the same clock
\* value, marks no session for deletion, so it deletes nothing and leaves
\* the store as the first run left it.
C26_SweepIdempotent ==
  [][ /\ (SweepScan /\ sweep.last # None /\ sweep.last[1].time = now) =>
           sweep'.sessions_to_delete = {}
      /\ (SweepEnd /\ sweep.quiet /\ sweep.last # None
             /\ sweep.last[1].time = sweep.current_time) =>
           (sweep.deleted = 0 /\ storage' = sweep.before)
    ]_vars

C26_Witness ==
  /\ sweep.pc = "idle"
  /\ sweep.last # None
  /\ sweep.last[1].deleted = 0
  /\ sweep.last[1].prior = Some(2)

\* C27: store_files only appends: whenever the lock is free, get_files of a
\* session returns every item stored in it since it came into being exactly
\* once, and get_session_info counts as many.
C27_AppendOnly ==
  lock = "free" =>
    \A s \in DOMAIN storage :
      LET files == get_files(storage, s)
      IN  /\ Len(files) = Len(stored[s])
          /\ \A i \in 1..Len(stored[s]) :
               Cardinality({j \in 1..Len(files) : files[j] = stored[s][i]}) = 1
          /\ get_session_info(storage, s).total_files = Len(stored[s])

C27_Witness ==
  /\ lock = "free"
  /\ \E s \in DOMAIN storage :
       /\ Len(stored[s]) = 2
       /\ stored[s][1].created_at < stored[s][2].created_at
       /\ stored[s][1].content_type = stored[s][2].content_type
       /\ returned = Some([op |-> "get_files", session_id |-> s,
                           files |-> stored[s], whole |-> stored[s]])

\* C30: a sweep deletes no session whose items, at the moment it is
\* deleted, are all within the cleanup interval.
C30_SweepDeletesOnlyOld ==
  [][\A s \in StoreSessionIds :
       (SweepDelete(s) /\ s \in DOMAIN storage /\ ItemsOf(storage[s]) # {}) =>
         OlderThanInterval(storage[s], now)
    ]_vars

\* C31: a session made by create_session and never given a file is never
\* marked by a scan and never removed by a sweep, whatever the clock says;
\* when it leaves the store, delete_session called by a client removed it.
C31_EmptySessionNeverSwept ==
  [][ /\ SweepScan =>
           \A s \in sweep'.sessions_to_delete : ItemsOf(storage[s]) # {}
      /\ \A s \in StoreSessionIds :
           ( /\ s \in DOMAIN storage
             /\ origin[s] = "create_session"
             /\ stored[s] = << >>
             /\ s \notin DOMAIN storage' ) =>
             (DeleteSession(s) /\ ~SweepDelete(s))
    ]_vars

C31_Witness ==
  /\ sweep.pc = "idle"
  /\ sweep.last # None
  /\ sweep.last[1].deleted = 1
  /\ sweep.last[1].time > CleanupMinutes
  /\ \E s \in DOMAIN storage :
       origin[s] = "create_session" /\ stored[s] = << >>
\* C32: store_files on a session id that is not in the store creates the
\* session, and when the call ends the session holds the files it was
\* given; so an id that was deleted comes back holding the stored files.
C32_StoreCreatesSession ==
  [][ /\ \A s \in StoreSessionIds :
           ( /\ lock = "free"
             /\ lock' = "store_files"
             /\ pending'.session_id = s
             /\ s \notin DOMAIN storage ) =>
             (s \in DOMAIN storage' /\ get_files(storage', s) = << >>)
      /\ (lock = "store_files" /\ lock' = "free") =>
           LET s == pending.session_id
           IN  /\ s \in DOMAIN storage'
               /\ Len(get_files(storage', s)) = Len(stored[s])
               /\ \A i \in 1..Len(stored[s]) :
                    \E j \in 1..Len(get_files(storage', s)) :
                      get_files(storage', s)[j] = stored[s][i]
    ]_vars

C32_Witness ==
  /\ lock = "free"
  /\ \E s \in DOMAIN storage :
       /\ origin[s] = "store_files_again"
       /\ Len(get_files(storage, s)) = 2
       /\ get_files(storage, s) = stored[s]
\* C33: a run works on the list of files it fetched at its start: no step
\* taken while the run is in its loop or waiting for the upstream changes
\* that list, and a run that ends has produced one result per file of the
\* list, in the order of the list, whatever has happened to the session in
\* the store meanwhile.
C33_RunUsesFetchedList ==
  [][\A r \in Runs :
       /\ runs[r].pc \in {"loop", "ocr"} =>
            runs'[r].stored_files = runs[r].stored_files
       /\ (runs[r].pc = "loop" /\ runs'[r].pc = "done") =>
            /\ Len(runs'[r].ocr_results) = Len(runs[r].stored_files)
            /\ \A i \in 1..Len(runs[r].stored_files) :
                 runs'[r].ocr_results[i].filename
                   = runs[r].stored_files[i].filename
    ]_vars

C33_Witness ==
  \E r \in Runs :
    /\ runs[r].pc = "ocr"
    /\ runs[r].i = 2
    /\ Len(runs[r].ocr_results) = 1
    /\ Len(runs[r].stored_files) = 2
    /\ runs[r].session_id \in DOMAIN storage
    /\ get_files(storage, runs[r].session_id) # runs[r].stored_files
    /\ Len(get_files(storage, runs[r].session_id)) = 1
\* C34: in a run of the pipeline, while the manager is on backup and the
\* retry time is not past, the call for a file goes to the backup client
\* alone and leaves the failover count as it is; the count never exceeds 1
\* in the run, so only the call that failed over has tried primary.
C34_OneFailoverPerRun ==
  [][\A r \in Runs :
       /\ ( /\ runs[r].pc = "loop"
            /\ calls'[r].pc = "inflight"
            /\ api.using_backup
            /\ api.primary_retry_time # None
            /\ now <= api.primary_retry_time[1] ) =>
            /\ calls'[r].client = "backup"
            /\ calls'[r].tried = {"backup"}
            /\ api'.failover_count = api.failover_count
            /\ issued'["primary"] = issued["primary"]
       /\ api'.failover_count <= 1
    ]_vars

C34_Witness ==
  \E r \in Runs :
    /\ runs[r].pc = "done"
    /\ Len(runs[r].ocr_results) = 3
    /\ \A i \in 1..3 :
         /\ runs[r].stored_files[i].content_type = "image"
         /\ runs[r].ocr_results[i].error_message = None
         /\ runs[r].ocr_results[i].extracted_text = "cat"
    /\ api.failover_count = 1
    /\ api.using_backup
    /\ issued["primary"] = 1
    /\ issued["backup"] = 3
\* files grouped by content kind: the kinds in the order in which each
\* first appears, the files of one kind in the order they have in items
RECURSIVE GroupedByKind(_)
GroupedByKind(items) ==
  IF items = << >>
    THEN << >>
    ELSE LET kind == Head(items).content_type
         IN  SelectSeq(items, LAMBDA f : f.content_type = kind)
               \o GroupedByKind(SelectSeq(items,
                                          LAMBDA f : f.content_type # kind))

\* the files of every kind stand next to each other in items
Contiguous(items) ==
  \A i, j, k \in 1..Len(items) :
    (i < j /\ j < k /\ items[i].content_type = items[k].content_type) =>
      items[j].content_type = items[i].content_type

\* C35: the list a run fetched with get_files is the session's files
\* grouped by content kind, kinds in the order of their first appearance
\* and files of a kind in stored order; it is the stored order exactly when
\* the files of every kind were stored next to each other.
C35_GroupedByKind ==
  \A r \in Runs :
    runs[r].pc # "idle" =>
      /\ runs[r].stored_files = GroupedByKind(runs[r].stored_order)
      /\ (runs[r].stored_files = runs[r].stored_order)
           <=> Contiguous(runs[r].stored_order)

C35_Witness ==
  \E r \in Runs :
    /\ runs[r].pc # "idle"
    /\ Len(runs[r].stored_order) = 3
    /\ ~Contiguous(runs[r].stored_order)
    /\ runs[r].stored_files # runs[r].stored_order
\* C36: in every state of the manager primary_retry_time is set only while
\* using_backup is set; the current client is the backup client whenever
\* using_backup is set, and the primary client whenever using_backup is
\* clear and a primary key is configured.  The same holds of the manager
\* as get_client leaves it, whose current client the next attempt uses.
C36_RetryTimeOnlyOnBackup ==
  \A a \in {api, get_client(api, now)} :
    /\ a.primary_retry_time # None => a.using_backup
    /\ a.using_backup => a.current_client = "backup"
    /\ (~a.using_backup /\ a.primary_client) => a.current_client = "primary"

C36_Witness ==
  /\ ~api.using_backup
  /\ api.failover_count = 1
  /\ api.primary_retry_time = None
  /\ api.current_client = "primary"
  /\ \E k \in Calls : calls[k].pc = "inflight" /\ calls[k].client = "primary"
\* C37: failover_count never decreases: a step adds 1 to it when it sets
\* using_backup and leaves it alone otherwise, so it is the number of
\* switches to backup so far; last_failover_time is set exactly when the
\* count is at least 1; a failback changes neither.
C37_FailoverCountIsSwitches ==
  [][ /\ api'.failover_count
           = api.failover_count
               + (IF ~api.using_backup /\ api'.using_backup THEN 1 ELSE 0)
      /\ (api.last_failover_time # None) <=> (api.failover_count >= 1)
      /\ (api'.last_failover_time # None) <=> (api'.failover_count >= 1)
      /\ (api.using_backup /\ ~api'.using_backup) =>
           /\ api'.failover_count = api.failover_count
           /\ api'.last_failover_time = api.last_failover_time
    ]_vars

C37_Witness ==
  /\ api.failover_count = 2
  /\ api.using_backup
  /\ api.last_failover_time # None
  /\ api.last_failover_time[1] > RetryMinutes
\* C38: the except block looks for a rate limit error before it looks for
\* an API key error: when the upstream raises, for a call on backup, an
\* error whose text has a term of both lists, the call raises the error
\* that both keys are rate limited, never the authentication one.
C38_RateLimitTestedFirst ==
  [][\A t \in Calls, e \in UpstreamErrors :
       ( /\ is_rate_limit_error(e)
         /\ is_api_key_error(e)
         /\ api.using_backup
         /\ calls[t].client = "backup"
         /\ UpstreamError(t, e) ) =>
         /\ calls'[t].pc = "raised"
         /\ calls'[t].result = BothRateLimitedError
         /\ calls'[t].result # BothAuthFailedError
    ]_vars

C38_Witness ==
  /\ \E e \in UpstreamErrors : is_rate_limit_error(e) /\ is_api_key_error(e)
  /\ api.using_backup
  /\ \E t \in Calls :
       /\ calls[t].pc = "raised"
       /\ calls[t].client = "backup"
       /\ calls[t].tried = {"primary", "backup"}
       /\ calls[t].result = BothRateLimitedError

TypeOK ==
  /\ now \in (0..MaxTime) \cup StoreTimes
  /\ lock \in {"free", "store_files"}
  /\ \A s \in DOMAIN origin :
       origin[s] \in {"none", "deleted", "create_session", "store_files",
                      "store_files_again"}
  /\ sweep.pc \in {"idle", "deleting"}
  /\ nfiles \in 0..Max(MaxFiles, MaxResults)
  /\ api.current_client \in {"none", "primary", "backup"}
  /\ \A t \in Calls : calls[t].pc \in {"idle", "inflight", "returned", "raised", "cancelled"}
  /\ \A r \in Runs : runs[r].pc \in {"idle", "loop", "ocr", "done"}
====
